---- MODULE Spec2Model ----
(***************************************************************************)
(* Model of the VNC server of build-your-own-x:                            *)
(*   - the credential store VNCAuth (vnc-server/authentication.py),        *)
(*   - the per-connection RFB state machine VNCConnection                  *)
(*     (vnc-server/rfb_protocol.py) driven with the callback built by      *)
(*     VNCAuth.create_auth_callback.                                       *)
(* Time is the value returned by time.time(), in seconds.  PBKDF2 and the  *)
(* salt digest are idealised as injective tagged tuples.                   *)
(***************************************************************************)
EXTENDS Integers, Sequences, FiniteSets, TLC

\* ---------------------------------------------------------------- bounds
T0 == 100                \* time.time() at construction of the store
TickLen == 100           \* granularity with which the clock advances
MaxTime == 500           \* the clock is not advanced past this value
MaxTimeUsers == 200      \* clock bound of the two-user specification
MaxLen == 3              \* bytes written by the peer of one socket
MaxWidth == 3            \* width of the images compared
BlockSize == 2           \* block_size of detect_changes, scaled from 32
MaxSignals == 2          \* termination signals sent to the process
MaxStarts == 2           \* start_server calls on one simple server
MaxClients == 2          \* connections accepted by one simple server
MaxCalls == 2            \* authenticate calls made by one thread
MaxCaptureThreads == 2   \* capture threads created by one manager
MaxCount == 1            \* encodings announced by one SetEncodings
MaxChallenge == 1        \* challenges are drawn from 0..MaxChallenge

\* ------------------------------------------------------ program constants
max_login_attempts == 3
lockout_duration == 300
SECURITY_NONE == 1
SECURITY_VNC_AUTH == 2
SET_ENCODINGS == 2
FRAMEBUFFER_UPDATE_REQUEST == 3
KEY_EVENT == 4
POINTER_EVENT == 5

Usernames == {"admin", "bob"}
Passwords == {"password", "secret"}
None == -1

Range(q) == {q[i] : i \in DOMAIN q}
Last(q) == q[Len(q)]

VARIABLES
    users,      \* VNCAuth.users : username -> User record
    file,       \* contents of auth_file as last written by save_users
    now,        \* time.time()
    ret,        \* the last store operation and its return value
    hist,       \* history: per user, consecutive failed calls and their times
    conn,       \* the VNCConnection object and its thread's position
    vhist,      \* history: consecutive failed challenge verifications
    server,     \* VNCServer (vnc/server): running, listener, password, ...
    client,     \* per accepted socket: the VNCClient and its thread's position
    clients,    \* VNCServer.clients, the list the update loop iterates
    upd,        \* the _framebuffer_update_loop thread's position and locals
    screen,     \* what ImageGrab.grab() would return now
    callers,    \* threads inside VNCAuth.authenticate: position and locals
    capture,    \* ScreenCaptureManager and its capture threads
    rx,         \* a socket's incoming stream and a receive_data call on it
    pf,         \* a PixelFormat, its packed bytes and what unpack returns
    img,        \* two images and the result of detect_changes on them
    app,        \* VNCServerApp (main.py): main thread, signals, server
    simple      \* VNCServer (core_vnc_server.py) and its threads

vars == <<users, file, now, ret, hist, conn, vhist,
          server, client, clients, upd, screen, callers, capture,
          rx, pf, img, app, simple>>
storeVars == <<users, file, ret, hist>>
connVars == <<conn, vhist>>
serverVars == <<server, client, clients, upd, screen>>
libVars == <<rx, pf, img, app, simple>>
auxVars == <<callers, capture, libVars>>

\* ------------------------------------------------------------- VNCAuth
_hash_password(password, salt) == <<"pbkdf2", password, salt>>

_generate_salt(t) == <<"sha256", t>>

Truthy(t) == t # None /\ t # 0

User(password, t) ==
    [password_hash |-> _hash_password(password, _generate_salt(t)),
     salt |-> _generate_salt(t),
     created_at |-> t,
     last_login |-> None,
     login_attempts |-> 0]

save_users(us) == us

\* History kept per user: streak = consecutive authenticate calls that
\* returned False (saturating at max_login_attempts), thirdAt = time of the
\* most recent call that made the streak reach max_login_attempts,
\* lastWrongAt = time of the most recent call with a wrong password.
NoHist == [streak |-> 0, thirdAt |-> None, lastWrongAt |-> None]

Ret(op, u, p, ok) == [op |-> op, user |-> u, pw |-> p, ok |-> ok]

PasswordMatches(u, p) ==
    _hash_password(p, users[u].salt) = users[u].password_hash

\* Variant: the lockout never expires.
LockedForever(u) ==
    /\ u \in DOMAIN users
    /\ users[u].login_attempts >= max_login_attempts
    /\ Truthy(users[u].last_login)

Locked(u) ==
    /\ u \in DOMAIN users
    /\ users[u].login_attempts >= max_login_attempts
    /\ Truthy(users[u].last_login)
    /\ (now - users[u].last_login) < lockout_duration

\* Variant: an existing record is replaced.
add_user_overwrite(u, p) ==
    /\ users' = [x \in DOMAIN users \cup {u} |->
                    IF x = u THEN User(p, now) ELSE users[x]]
    /\ file' = save_users(users')
    /\ hist' = [hist EXCEPT ![u] = NoHist]
    /\ ret' = Ret("add_user", u, p, u \notin DOMAIN users)
    /\ UNCHANGED <<now, connVars, serverVars, auxVars>>

add_user(u, p) ==
    /\ IF u \in DOMAIN users
       THEN /\ ret' = Ret("add_user", u, p, FALSE)
            /\ UNCHANGED <<users, file, hist>>
       ELSE /\ users' = [x \in DOMAIN users \cup {u} |->
                            IF x = u THEN User(p, now) ELSE users[x]]
            /\ file' = save_users(users')
            /\ hist' = [hist EXCEPT ![u] = NoHist]
            /\ ret' = Ret("add_user", u, p, TRUE)
    /\ UNCHANGED <<now, connVars, serverVars, auxVars>>

remove_user(u) ==
    /\ IF u \notin DOMAIN users
       THEN /\ ret' = Ret("remove_user", u, None, FALSE)
            /\ UNCHANGED <<users, file>>
       ELSE /\ users' = [x \in DOMAIN users \ {u} |-> users[x]]
            /\ file' = save_users(users')
            /\ ret' = Ret("remove_user", u, None, TRUE)
    /\ UNCHANGED <<hist, now, connVars, serverVars, auxVars>>

\* Variant: the old password is not verified.
change_password_unchecked(u, old, new) ==
    /\ IF u \notin DOMAIN users
       THEN /\ ret' = Ret("change_password", u, new, FALSE)
            /\ UNCHANGED <<users, file>>
       ELSE /\ users' = [users EXCEPT
                            ![u].password_hash =
                                _hash_password(new, _generate_salt(now)),
                            ![u].salt = _generate_salt(now)]
            /\ file' = save_users(users')
            /\ ret' = Ret("change_password", u, new, TRUE)
    /\ UNCHANGED <<hist, now, connVars, serverVars, auxVars>>

change_password(u, old, new) ==
    /\ IF u \notin DOMAIN users
       THEN /\ ret' = Ret("change_password", u, new, FALSE)
            /\ UNCHANGED <<users, file>>
       ELSE IF ~PasswordMatches(u, old)
       THEN /\ ret' = Ret("change_password", u, new, FALSE)
            /\ UNCHANGED <<users, file>>
       ELSE /\ users' = [users EXCEPT
                            ![u].password_hash =
                                _hash_password(new, _generate_salt(now)),
                            ![u].salt = _generate_salt(now)]
            /\ file' = save_users(users')
            /\ ret' = Ret("change_password", u, new, TRUE)
    /\ UNCHANGED <<hist, now, connVars, serverVars, auxVars>>

\* The User record after the lockout check of authenticate (lines 106-112).
AfterLockoutCheck(u) ==
    IF users[u].login_attempts >= max_login_attempts
    THEN [users[u] EXCEPT !.login_attempts = 0]
    ELSE users[u]

\* The User record after a failed verification (lines 124-128).
AfterFailure(rec) ==
    LET n == rec.login_attempts + 1
    IN  [rec EXCEPT !.login_attempts = n,
                    !.last_login = IF n = 1 THEN now ELSE rec.last_login]

\* Variant: the failure counter survives a successful login.
AfterSuccessKeepCount(rec) ==
    [rec EXCEPT !.last_login = now]

\* The User record after a successful verification (lines 118-121).
AfterSuccess(rec) ==
    [rec EXCEPT !.last_login = now, !.login_attempts = 0]

HistAfter(u, ok, wrong) ==
    LET h == hist[u]
        n == IF h.streak < max_login_attempts THEN h.streak + 1 ELSE h.streak
    IN  IF ok
        THEN [hist EXCEPT ![u] = [h EXCEPT !.streak = 0]]
        ELSE [hist EXCEPT ![u] =
                [streak |-> n,
                 thirdAt |-> IF h.streak = max_login_attempts - 1
                             THEN now ELSE h.thirdAt,
                 lastWrongAt |-> IF wrong THEN now ELSE h.lastWrongAt]]

\* Variant: a refused attempt restarts the lockout window.
authenticate_locked_restart(u, p) ==
    /\ ret' = Ret("authenticate", u, p, FALSE)
    /\ hist' = HistAfter(u, FALSE, ~PasswordMatches(u, p))
    /\ users' = [users EXCEPT ![u].last_login = now]
    /\ file' = save_users(users')

\* authenticate on a locked user: return False (lines 107-109).
authenticate_locked(u, p) ==
    /\ ret' = Ret("authenticate", u, p, FALSE)
    /\ hist' = HistAfter(u, FALSE, ~PasswordMatches(u, p))
    /\ UNCHANGED <<users, file>>

authenticate(u, p) ==
    /\ IF u \notin DOMAIN users
       THEN /\ ret' = Ret("authenticate", u, p, FALSE)
            /\ hist' = HistAfter(u, FALSE, TRUE)
            /\ UNCHANGED <<users, file>>
       ELSE IF Locked(u)
       THEN authenticate_locked(u, p)
       ELSE IF PasswordMatches(u, p)
       THEN /\ users' = [users EXCEPT ![u] = AfterSuccess(AfterLockoutCheck(u))]
            /\ file' = save_users(users')
            /\ hist' = HistAfter(u, TRUE, FALSE)
            /\ ret' = Ret("authenticate", u, p, TRUE)
       ELSE /\ users' = [users EXCEPT ![u] = AfterFailure(AfterLockoutCheck(u))]
            /\ file' = save_users(users')
            /\ hist' = HistAfter(u, FALSE, TRUE)
            /\ ret' = Ret("authenticate", u, p, FALSE)
    /\ UNCHANGED <<now, connVars, serverVars, auxVars>>

\* time.time() advances between calls.
Tick(max) ==
    /\ now + TickLen <= max
    /\ now' = now + TickLen
    /\ UNCHANGED <<storeVars, connVars, serverVars, auxVars>>

\* -------------------------------------------------------- challenge
\* Bytes are scaled to two bits; a challenge, a key and a response are one
\* such value.  Key is the password padded/truncated to the key length.
Bit(v, i) == (v \div (2 ^ i)) % 2

Xor(a, b) ==
    ((Bit(a, 0) + Bit(b, 0)) % 2) + 2 * ((Bit(a, 1) + Bit(b, 1)) % 2)

Key(password) ==
    CASE password = "password" -> 1
      [] password = "secret" -> 2
      [] OTHER -> 3

Challenges == 0..MaxChallenge
Responses == 0..3
SecurityTypes == 0..3

vnc_challenge_response(username, password, challenge) ==
    Xor(challenge, Key(password))

auth_callback(challenge, response) ==
    IF "admin" \in DOMAIN users
    THEN response = vnc_challenge_response("admin", "password", challenge)
    ELSE FALSE

\* ------------------------------------------------------ VNCConnection
NoConn ==
    [pc |-> "none", auth_callback |-> FALSE, authenticated |-> FALSE,
     running |-> FALSE, choice |-> None, challenge |-> None, sent |-> <<>>]

Msg(type, val) == [type |-> type, val |-> val]

send_data(c, m) == [c EXCEPT !.sent = Append(@, m)]

\* The finally block of start: running = False, socket.close().
Finally(c) == [c EXCEPT !.pc = "closed", !.running = FALSE, !.challenge = None]

\* VNCConnection(socket, address, auth_callback): a new connection is
\* accepted once the previous one is gone.
VNCConnection(cb) ==
    /\ conn.pc \in {"none", "closed"}
    /\ conn' = [NoConn EXCEPT !.pc = "new", !.auth_callback = cb]
    /\ UNCHANGED <<storeVars, now, vhist, serverVars, auxVars>>

\* start: running = True, the server's version string is written.
start ==
    /\ conn.pc = "new"
    /\ conn' = [send_data(conn, Msg("version", 8)) EXCEPT
                   !.running = TRUE, !.pc = "wait_version"]
    /\ UNCHANGED <<storeVars, now, vhist, serverVars, auxVars>>

\* start: the client's 12 bytes arrive; handle_authentication then writes
\* the list of security types.
start_version(valid) ==
    /\ conn.pc = "wait_version"
    /\ conn' = IF ~valid
               THEN Finally(conn)
               ELSE [send_data(conn,
                        Msg("security_types",
                            IF conn.auth_callback THEN SECURITY_VNC_AUTH
                                                  ELSE SECURITY_NONE))
                     EXCEPT !.pc = "wait_choice"]
    /\ UNCHANGED <<storeVars, now, vhist, serverVars, auxVars>>

\* handle_authentication from the receipt of the client's choice; the
\* challenge is the md5 digest of the clock reading.
handle_authentication_choice(choice, challenge) ==
    /\ conn.pc = "wait_choice"
    /\ conn' =
         IF choice = SECURITY_NONE
         THEN [send_data(conn, Msg("security_result", 0)) EXCEPT
                  !.choice = choice, !.pc = "wait_client_init"]
         ELSE IF choice = SECURITY_VNC_AUTH /\ conn.auth_callback
         THEN [send_data(conn, Msg("challenge", challenge)) EXCEPT
                  !.choice = choice, !.challenge = challenge,
                  !.pc = "wait_response"]
         ELSE Finally([conn EXCEPT !.choice = choice])
    /\ UNCHANGED <<storeVars, now, vhist, serverVars, auxVars>>

VhistAfter(ok) ==
    IF ok
    THEN [vhist EXCEPT !.count = 0]
    ELSE [count |-> IF vhist.count < max_login_attempts
                    THEN vhist.count + 1 ELSE vhist.count,
          lastAt |-> now]

\* handle_authentication from the receipt of the 16-byte response.
handle_authentication_response(response) ==
    /\ conn.pc = "wait_response"
    /\ LET ok == auth_callback(conn.challenge, response)
       IN  /\ conn' =
                 IF ok
                 THEN [send_data(conn, Msg("security_result", 0)) EXCEPT
                          !.authenticated = TRUE, !.challenge = None,
                          !.pc = "wait_client_init"]
                 ELSE [send_data(conn, Msg("security_result", 1)) EXCEPT
                          !.challenge = None, !.pc = "wait_client_init"]
           /\ vhist' = VhistAfter(ok)
    /\ UNCHANGED <<storeVars, now, serverVars, auxVars>>

\* handle_initialization: ClientInit is read, ServerInit is written.
handle_initialization ==
    /\ conn.pc = "wait_client_init"
    /\ conn' = [send_data(conn, Msg("server_init", 0)) EXCEPT
                   !.pc = "messages"]
    /\ UNCHANGED <<storeVars, now, vhist, serverVars, auxVars>>

MessageTypes == {0, 1, 2, 3, 4, 5, 6}

\* handle_client_messages: one pass of the loop for one client message.
\* struct rejects the format strings '!BXHHHHHHI' (create_framebuffer_update)
\* and '!BXXl' (key event): the exception handler breaks out of the loop, as
\* does an empty encodings list; start then runs its finally block.
handle_client_messages(type, count) ==
    /\ conn.pc = "messages"
    /\ conn.running
    /\ conn' = IF \/ type = FRAMEBUFFER_UPDATE_REQUEST
                  \/ type = KEY_EVENT
                  \/ (type = SET_ENCODINGS /\ count = 0)
               THEN Finally(conn)
               ELSE conn
    /\ UNCHANGED <<storeVars, now, vhist, serverVars, auxVars>>

\* receive_data returns None or send_data returns False: start returns
\* through its finally block.
receive_failed ==
    /\ conn.pc \in {"wait_version", "wait_choice", "wait_response",
                    "wait_client_init", "messages"}
    /\ conn' = Finally(conn)
    /\ UNCHANGED <<storeVars, now, vhist, serverVars, auxVars>>

\* ------------------------------------------------ VNCServer (vnc/server)
screen_width == 1024
screen_height == 768
max_connections == 1
DefaultBpp == 32
RGBBytesPerPixel == 3
EncodingTypeValues == {0, 1, 2, 5, 16, -239, -223}

Sockets == {1, 2}
ServerPasswords == {"", "secret"}
Frames == {0, 1}
Bpps == {8, 32}
EncodingLists == {<<0>>, <<5, -223>>}
FullRect == [x |-> 0, y |-> 0, w |-> screen_width, h |-> screen_height]
OutOfBoundsRect == [x |-> 1000, y |-> 700, w |-> 100, h |-> 100]
RequestRects == {FullRect, OutOfBoundsRect}
PointerPositions ==
    {[x |-> 10, y |-> 20, w |-> 0, h |-> 0],
     [x |-> 2000, y |-> 20, w |-> 0, h |-> 0]}

md5(data) == <<"md5", data>>
NoHash == <<"None", None>>

\* RFBProtocol.receive_uint32: the four bytes of the 32-bit value v read as
\* an unsigned integer, kept as its high and low 16-bit halves.
receive_uint32(v) ==
    IF v >= 0
    THEN [hi |-> v \div 65536, lo |-> v % 65536]
    ELSE [hi |-> 65535 - ((-v - 1) \div 65536),
          lo |-> 65535 - ((-v - 1) % 65536)]

\* encoding in [e.value for e in EncodingType]
InEncodingType(e) ==
    /\ e.hi < 32768
    /\ (e.hi * 65536 + e.lo) \in EncodingTypeValues

encrypt_challenge(challenge, password) == Xor(challenge, Key(password))

\* The last FramebufferUpdate written to a client: its rectangle, the
\* length and contents of its payload, and the region of the request it
\* answers.
NoUpdate ==
    [x |-> 0, y |-> 0, w |-> 0, h |-> 0, len |-> 0, frame |-> None,
     req |-> None]

\* No position was handed to the display.
NoPointer == [x |-> None, y |-> None]

NoClient ==
    [pc |-> "free", socket |-> "none", authenticated |-> FALSE,
     pixel_format |-> DefaultBpp, encodings |-> <<0>>,
     incremental_update |-> FALSE, update_requested |-> FALSE,
     active |-> FALSE, challenge |-> None, out |-> <<>>,
     client_init |-> "none", warned |-> FALSE, request |-> None,
     update |-> NoUpdate, pointer |-> NoPointer]

\* VNCClient(socket, address)
VNCClient == [NoClient EXCEPT !.socket = "open", !.active = TRUE]

\* Variant: the table is emptied.
RemoveAll(q, c) == <<>>

\* self.clients.remove(client), when the client is listed.
Remove(q, c) == SelectSeq(q, LAMBDA x : x # c)

\* Variant: the socket is not closed.
DisconnectedOpen(cl) ==
    [cl EXCEPT !.active = FALSE]

\* _disconnect_client as a function of the client record.
Disconnected(cl) ==
    [cl EXCEPT !.active = FALSE, !.socket = "closed"]

\* The finally block of _handle_client: _disconnect_client, thread ends.
\* The fields nothing reads any more go back to their initial values.
ThreadEnd(cl) ==
    [Disconnected(cl) EXCEPT !.pc = "closed", !.challenge = None,
        !.pixel_format = DefaultBpp, !.encodings = <<0>>,
        !.request = None, !.update = NoUpdate,
        !.pointer = NoPointer]

\* Variant: the disconnected clients stay in the table.
StopResultListed ==
    [server |-> [server EXCEPT !.running = FALSE,
                     !.listener = IF @ = "none" THEN "none" ELSE "closed"],
     client |-> [c \in Sockets |->
                     IF c \in Range(clients) THEN Disconnected(client[c])
                     ELSE client[c]],
     clients |-> clients]

\* What VNCServer.stop leaves: running False, the listener (if start made
\* one) closed, every client of the table disconnected and removed.
StopResult ==
    [server |-> [server EXCEPT !.running = FALSE,
                     !.listener = IF @ = "none" THEN "none" ELSE "closed"],
     client |-> [c \in Sockets |->
                     IF c \in Range(clients) THEN Disconnected(client[c])
                     ELSE client[c]],
     clients |-> <<>>]

\* VNCServer.stop
VNCServer_stop ==
    /\ server' = StopResult.server
    /\ client' = StopResult.client
    /\ clients' = StopResult.clients
    /\ UNCHANGED <<storeVars, connVars, now, upd, screen, auxVars>>

\* VNCServer.start up to the accept loop; a failed bind runs stop.
VNCServer_start(ok) ==
    /\ ~server.started
    /\ server' = IF ok
                 THEN [server EXCEPT !.started = TRUE, !.running = TRUE,
                                     !.listener = "open"]
                 ELSE [server EXCEPT !.started = TRUE, !.listener = "closed"]
    /\ upd' = IF ok THEN [upd EXCEPT !.pc = "sleep"] ELSE upd
    /\ UNCHANGED <<storeVars, connVars, now, client, clients, screen, auxVars>>

\* One pass of the accept loop, and _do_handshake up to the receipt of the
\* client's version.  Sockets are numbered in the order they are accepted.
accept(c) ==
    /\ server.running
    /\ server.listener = "open"
    /\ client[c].pc = "free"
    /\ \A d \in Sockets : d < c => client[d].pc # "free"
    /\ client' = [client EXCEPT ![c] =
                     [VNCClient EXCEPT !.pc = "wait_version",
                                       !.out = <<Msg("version", 8)>>]]
    /\ UNCHANGED <<storeVars, connVars, now, server, clients, upd, screen,
                 auxVars>>

\* Variant: the client is listed as soon as its version is received.
_do_handshake_listed(c) ==
    /\ client[c].pc = "wait_version"
    /\ client' = [client EXCEPT ![c] =
                     [@ EXCEPT !.pc = "wait_choice",
                               !.out = Append(@,
                                   Msg("security_types",
                                       IF server.password # ""
                                       THEN SECURITY_VNC_AUTH
                                       ELSE SECURITY_NONE))]]
    /\ clients' = Append(clients, c)
    /\ UNCHANGED <<storeVars, connVars, now, server, upd, screen, auxVars>>

\* _do_handshake from the receipt of the client's version, and
\* _do_authentication up to the receipt of the chosen security type.
_do_handshake(c) ==
    /\ client[c].pc = "wait_version"
    /\ client' = [client EXCEPT ![c] =
                     [@ EXCEPT !.pc = "wait_choice",
                               !.out = Append(@,
                                   Msg("security_types",
                                       IF server.password # ""
                                       THEN SECURITY_VNC_AUTH
                                       ELSE SECURITY_NONE))]]
    /\ UNCHANGED <<storeVars, connVars, now, server, clients, upd, screen,
                 auxVars>>

\* Variant: the client is listed without its authenticated flag set.
Enter_unauthenticated(c, cl) ==
    LET init == [cl EXCEPT !.challenge = None,
                           !.out = Append(@, Msg("server_init", 0)),
                           !.client_init = "pending"]
    IN  IF server.running
        THEN /\ client' = [client EXCEPT ![c] = [init EXCEPT !.pc = "loop"]]
             /\ clients' = Append(clients, c)
        ELSE /\ client' = [client EXCEPT ![c] = ThreadEnd(init)]
             /\ clients' = clients

\* _handle_client once _do_authentication returned True: ServerInit is
\* written, the client is listed, the message loop is entered (or, the
\* server being stopped, left at once through the finally block).
Enter(c, cl) ==
    LET init == [cl EXCEPT !.authenticated = TRUE, !.challenge = None,
                           !.out = Append(@, Msg("server_init", 0)),
                           !.client_init = "pending"]
    IN  IF server.running
        THEN /\ client' = [client EXCEPT ![c] = [init EXCEPT !.pc = "loop"]]
             /\ clients' = Append(clients, c)
        ELSE /\ client' = [client EXCEPT ![c] = ThreadEnd(init)]
             /\ clients' = clients

\* _do_authentication from the receipt of the chosen security type.  out
\* keeps the length of the challenge; its bytes are client.challenge.
_do_authentication_choice(c, chosen_type, challenge) ==
    /\ client[c].pc = "wait_choice"
    /\ IF server.password # ""
       THEN IF chosen_type # SECURITY_VNC_AUTH
            THEN /\ client' = [client EXCEPT ![c] =
                       ThreadEnd([@ EXCEPT !.out =
                           Append(@, Msg("security_result", 1))])]
                 /\ clients' = clients
            ELSE /\ client' = [client EXCEPT ![c] =
                       [@ EXCEPT !.pc = "wait_response",
                                 !.challenge = challenge,
                                 !.out = Append(@, Msg("challenge", 16))]]
                 /\ clients' = clients
       ELSE IF chosen_type # SECURITY_NONE
            THEN /\ client' = [client EXCEPT ![c] = ThreadEnd(@)]
                 /\ clients' = clients
            ELSE Enter(c, client[c])
    /\ UNCHANGED <<storeVars, connVars, now, server, upd, screen, auxVars>>

\* _do_authentication from the receipt of the 16-byte response.
_do_authentication_response(c, response) ==
    /\ client[c].pc = "wait_response"
    /\ IF response # encrypt_challenge(client[c].challenge, server.password)
       THEN /\ client' = [client EXCEPT ![c] =
                  ThreadEnd([@ EXCEPT !.out =
                      Append(@, Msg("security_result", 1))])]
            /\ clients' = clients
       ELSE Enter(c, [client[c] EXCEPT !.out =
                         Append(@, Msg("security_result", 0))])
    /\ UNCHANGED <<storeVars, connVars, now, server, upd, screen, auxVars>>

\* VNCClient.handle_set_encodings
handle_set_encodings(cl, ids) ==
    LET kept == SelectSeq([i \in DOMAIN ids |-> receive_uint32(ids[i])],
                          InEncodingType)
    IN  [cl EXCEPT !.encodings =
            [i \in DOMAIN kept |-> kept[i].hi * 65536 + kept[i].lo]]

\* VNCClient.handle_framebuffer_update_request
handle_framebuffer_update_request(cl, incremental, rect) ==
    [cl EXCEPT !.incremental_update = incremental,
               !.update_requested = TRUE,
               !.request = rect]

\* VNCClient.handle_pointer_event; gui: HAS_PYAUTOGUI is set and the
\* pyautogui calls do not raise; pointer: the position handed to
\* pyautogui.moveTo.
handle_pointer_event(cl, gui, x, y) ==
    IF gui THEN [cl EXCEPT !.pointer = [x |-> x, y |-> y]] ELSE cl

\* The dispatch of one message in the loop of _handle_client; rect: the
\* x, y, width and height fields of the message; warned:
\* logger.warning("Unknown message type") was called.
handle_message(cl, type, bpp, ids, incremental, rect, gui) ==
    CASE type = 0 -> [cl EXCEPT !.pixel_format = bpp]
      [] type = SET_ENCODINGS -> handle_set_encodings(cl, ids)
      [] type = FRAMEBUFFER_UPDATE_REQUEST ->
             handle_framebuffer_update_request(cl, incremental, rect)
      [] type = POINTER_EVENT -> handle_pointer_event(cl, gui, rect.x, rect.y)
      [] type \in {KEY_EVENT, 6} -> cl
      [] OTHER -> [cl EXCEPT !.warned = TRUE]

\* The first pass of the message loop of _handle_client.  The first byte
\* the client sends after the security phase is its ClientInit, the shared
\* flag 0 or 1; the loop reads it as a message type, and for 0 the bytes
\* of the client's next messages as a pixel format.
client_init_byte(c, shared, bpp) ==
    /\ client[c].pc = "loop"
    /\ client[c].socket = "open"
    /\ client[c].client_init = "pending"
    /\ LET cl == handle_message(
                     [client[c] EXCEPT !.client_init = "as_message"],
                     shared, bpp, <<>>, FALSE, FullRect, FALSE)
       IN  IF cl.active /\ server.running
           THEN /\ client' = [client EXCEPT ![c] = cl]
                /\ clients' = clients
           ELSE /\ client' = [client EXCEPT ![c] = ThreadEnd(cl)]
                /\ clients' = Remove(clients, c)
    /\ UNCHANGED <<storeVars, connVars, now, server, upd, screen, auxVars>>

\* One later pass of the message loop of _handle_client.
client_message(c, type, bpp, ids, incremental, rect, gui) ==
    /\ client[c].pc = "loop"
    /\ client[c].socket = "open"
    /\ client[c].client_init # "pending"
    /\ LET cl == handle_message(client[c], type, bpp, ids, incremental,
                                rect, gui)
       IN  IF cl.active /\ server.running
           THEN /\ client' = [client EXCEPT ![c] = cl]
                /\ clients' = clients
           ELSE /\ client' = [client EXCEPT ![c] = ThreadEnd(cl)]
                /\ clients' = Remove(clients, c)
    /\ UNCHANGED <<storeVars, connVars, now, server, upd, screen, auxVars>>

\* A receive raises (the peer closed, or the socket was closed by stop or
\* by the update loop): the thread leaves through the finally block.
receive_raises(c) ==
    /\ client[c].pc \in {"wait_version", "wait_choice", "wait_response",
                         "loop"}
    /\ client' = [client EXCEPT ![c] = ThreadEnd(@)]
    /\ clients' = Remove(clients, c)
    /\ UNCHANGED <<storeVars, connVars, now, server, upd, screen, auxVars>>

\* The peer closes the connection; the server has not read the end of
\* the stream yet.
peer_close(c) ==
    /\ client[c].pc \in {"wait_version", "wait_choice", "wait_response",
                         "loop"}
    /\ client[c].socket = "open"
    /\ client' = [client EXCEPT ![c].socket = "eof"]
    /\ UNCHANGED <<storeVars, connVars, now, server, clients, upd, screen,
                 auxVars>>

\* The screen contents change.
ScreenChange(f) ==
    /\ f # screen
    /\ screen' = f
    /\ UNCHANGED <<storeVars, connVars, now, server, client, clients, upd,
                 auxVars>>

\* _capture_screen: None without PIL or when the grab raises, else the RGB
\* bytes of the screen.
_capture_screen(ok) == IF ok THEN screen ELSE None

\* _framebuffer_update_loop from the top of a pass to the first client: the
\* clients with update_requested are collected, the screen is captured.
\* failed: the last capture, made with clients waiting, returned None;
\* serving: the request whose update is being written.
update_loop_begin(ok) ==
    /\ upd.pc = "sleep"
    /\ server.running
    /\ LET clients_needing_update ==
               SelectSeq(clients, LAMBDA c : client[c].update_requested)
           screen_data == _capture_screen(ok)
       IN  upd' = IF clients_needing_update = <<>>
                  THEN upd
                  ELSE IF screen_data # None
                  THEN [pc |-> "iter", todo |-> clients_needing_update,
                        data |-> screen_data, failed |-> FALSE,
                        serving |-> None]
                  ELSE [upd EXCEPT !.failed = TRUE]
    /\ UNCHANGED <<storeVars, connVars, now, server, client, clients, screen,
                 auxVars>>

\* client.update_requested = False; request, the region of the pending
\* request, is history.
Answered(cl) == [cl EXCEPT !.update_requested = FALSE, !.request = None]

\* The update thread after the last client of a pass.
AfterClient ==
    IF Tail(upd.todo) = <<>>
    THEN /\ upd' = [pc |-> "sleep", todo |-> <<>>, data |-> None,
                    failed |-> FALSE, serving |-> None]
         /\ server' = [server EXCEPT !.last_screen_hash = md5(upd.data)]
    ELSE /\ upd' = [upd EXCEPT !.pc = "iter", !.todo = Tail(@),
                                !.serving = None]
         /\ server' = server

\* The body of the loop over clients_needing_update up to the write.
update_loop_client ==
    /\ upd.pc = "iter"
    /\ LET c == Head(upd.todo)
       IN  IF \/ ~client[c].incremental_update
              \/ md5(upd.data) # server.last_screen_hash
           THEN /\ upd' = [upd EXCEPT
                              !.pc = "sending",
                              !.serving = <<client[c].incremental_update,
                                            client[c].request>>]
                /\ UNCHANGED <<server, client>>
           ELSE /\ client' = [client EXCEPT ![c] = Answered(@)]
                /\ AfterClient
    /\ UNCHANGED <<storeVars, connVars, now, clients, screen, auxVars>>

\* Variant: the rectangle is the one the client asked for.
Rectangle_requested(cl, screen_data) ==
    [x |-> cl.request.x, y |-> cl.request.y,
     w |-> cl.request.w, h |-> cl.request.h,
     len |-> screen_width * screen_height * RGBBytesPerPixel,
     frame |-> screen_data, req |-> cl.request]

\* Rectangle(0, 0, screen_width, screen_height, RAW, screen_data)
Rectangle(cl, screen_data) ==
    [x |-> 0, y |-> 0, w |-> screen_width, h |-> screen_height,
     len |-> screen_width * screen_height * RGBBytesPerPixel,
     frame |-> screen_data, req |-> cl.request]

\* _send_framebuffer_update returns or raises; the rest of the loop body.
update_loop_sent(ok) ==
    /\ upd.pc = "sending"
    /\ LET c == Head(upd.todo)
       IN  IF ok /\ client[c].socket # "closed"
           THEN /\ client' = [client EXCEPT ![c] =
                      Answered([@ EXCEPT !.update =
                                    Rectangle(client[c], upd.data)])]
                /\ clients' = clients
           ELSE /\ client' = [client EXCEPT ![c] = Disconnected(@)]
                /\ clients' = Remove(clients, c)
    /\ AfterClient
    /\ UNCHANGED <<storeVars, connVars, now, screen, auxVars>>

\* The update thread finds running False at the top of a pass.
update_loop_exit ==
    /\ upd.pc = "sleep"
    /\ ~server.running
    /\ upd' = [upd EXCEPT !.pc = "done"]
    /\ UNCHANGED <<storeVars, connVars, now, server, client, clients, screen,
                 auxVars>>

\* VNCServer(host, port, password)
VNCServer(password) ==
    [started |-> FALSE, running |-> FALSE, listener |-> "none",
     password |-> password, last_screen_hash |-> NoHash]

\* ------------------------------------------- VNCAuth used from threads
\* authenticate and save_users take no lock; a thread switch can fall
\* between any two statements, and "login_attempts += 1" is a read
\* followed by a write.
CallerIds == {1, 2}

NoCaller ==
    [pc |-> "idle", ok |-> FALSE, tmp |-> 0, data |-> <<>>,
     calls |-> 0, failed |-> 0, refused |-> 0, succeeded |-> 0]

\* authenticate up to the verification of the password (lines 99-116).
authenticate_enter(t, p) ==
    /\ callers[t].pc = "idle"
    /\ callers[t].calls < MaxCalls
    /\ IF "admin" \notin DOMAIN users \/ Locked("admin")
       THEN /\ callers' = [callers EXCEPT ![t].calls = @ + 1,
                                          ![t].refused = @ + 1]
            /\ UNCHANGED users
       ELSE /\ users' = [users EXCEPT !["admin"] = AfterLockoutCheck("admin")]
            /\ callers' = [callers EXCEPT
                              ![t].calls = @ + 1,
                              ![t].pc = "verified",
                              ![t].ok = PasswordMatches("admin", p)]
    /\ UNCHANGED <<file, ret, hist, now, connVars, serverVars, capture,
                 libVars>>

\* authenticate after the verification: the success branch (lines 117-120),
\* or the read of login_attempts by "+= 1" (line 125).
authenticate_verified(t) ==
    /\ callers[t].pc = "verified"
    /\ "admin" \in DOMAIN users
    /\ IF callers[t].ok
       THEN /\ users' = [users EXCEPT !["admin"] = AfterSuccess(@)]
            /\ callers' = [callers EXCEPT ![t].pc = "save"]
       ELSE /\ callers' = [callers EXCEPT
                              ![t].pc = "increment",
                              ![t].tmp = users["admin"].login_attempts]
            /\ UNCHANGED users
    /\ UNCHANGED <<file, ret, hist, now, connVars, serverVars, capture,
                 libVars>>

\* The write of login_attempts by "+= 1" and the first-failure timestamp
\* (lines 125-127).
authenticate_increment(t) ==
    /\ callers[t].pc = "increment"
    /\ users' = [users EXCEPT !["admin"] =
                    AfterFailure([@ EXCEPT !.login_attempts = callers[t].tmp])]
    /\ callers' = [callers EXCEPT ![t].pc = "save"]
    /\ UNCHANGED <<file, ret, hist, now, connVars, serverVars, capture,
                 libVars>>

\* save_users: the dictionary is built from the table (lines 201-209).
save_users_dump(t) ==
    /\ callers[t].pc = "save"
    /\ callers' = [callers EXCEPT ![t].pc = "write", ![t].data = users]
    /\ UNCHANGED <<storeVars, now, connVars, serverVars, capture,
                 libVars>>

\* save_users: the dictionary is written (lines 211-213), and authenticate
\* returns.
save_users_write(t) ==
    /\ callers[t].pc = "write"
    /\ file' = save_users(callers[t].data)
    /\ callers' = [callers EXCEPT
                      ![t].pc = "idle",
                      ![t].data = <<>>,
                      ![t].tmp = 0,
                      ![t].failed = IF callers[t].ok THEN @ ELSE @ + 1,
                      ![t].succeeded = IF callers[t].ok THEN @ + 1 ELSE @]
    /\ UNCHANGED <<users, ret, hist, now, connVars, serverVars, capture,
                 libVars>>

\* --------------------------------------------------- VNCAuth.load_users
\* What the constructor finds at auth_file.
FileKinds == {"missing", "valid", "corrupt"}

\* VNCAuth(auth_file): users = {}, then load_users.  A readable file is
\* the table last saved; otherwise the default account is created and saved.
load_users(kind) ==
    /\ IF kind = "valid"
       THEN /\ users' = file
            /\ UNCHANGED file
       ELSE /\ users' = [x \in {"admin"} |-> User("password", now)]
            /\ file' = save_users(users')
    /\ hist' = [x \in Usernames |-> NoHist]
    /\ ret' = Ret("load_users", None, kind, kind = "valid")
    /\ UNCHANGED <<now, connVars, serverVars, auxVars>>

\* ------------------------------------------------- ScreenCaptureManager
CaptureIds == 1..MaxCaptureThreads

NoCapture == [frame |-> None, by |-> None]

\* ScreenCaptureManager(capture_interval); thread[t] is the position of the
\* t-th thread created, caller the position of the thread using the manager.
ScreenCaptureManager ==
    [is_capturing |-> FALSE, capture_thread |-> None,
     last_capture |-> NoCapture, caller |-> "idle",
     thread |-> [t \in CaptureIds |-> "unborn"]]

Alive(t) == capture.thread[t] \notin {"unborn", "dead"}

\* start_continuous_capture (lines 227-238)
start_continuous_capture ==
    /\ capture.caller = "idle"
    /\ IF capture.is_capturing
       THEN UNCHANGED capture
       ELSE \E t \in CaptureIds :
              /\ capture.thread[t] = "unborn"
              /\ \A s \in CaptureIds : s < t => capture.thread[s] # "unborn"
              /\ capture' = [capture EXCEPT !.is_capturing = TRUE,
                                            !.capture_thread = t,
                                            !.thread[t] = "test"]
    /\ UNCHANGED <<storeVars, now, connVars, serverVars, callers,
                 libVars>>

\* stop_continuous_capture up to the join (lines 240-243)
stop_continuous_capture ==
    /\ capture.caller = "idle"
    /\ capture' = [capture EXCEPT
                      !.is_capturing = FALSE,
                      !.caller = IF capture.capture_thread # None
                                 THEN "join" ELSE "idle"]
    /\ UNCHANGED <<storeVars, now, connVars, serverVars, callers,
                 libVars>>

\* capture_thread.join(timeout=1.0) returns (lines 243-244): the thread has
\* ended, or the second has passed.
join(timeout) ==
    /\ capture.caller = "join"
    /\ ~Alive(capture.capture_thread) \/ timeout
    /\ capture' = [capture EXCEPT !.caller = "idle"]
    /\ UNCHANGED <<storeVars, now, connVars, serverVars, callers,
                 libVars>>

\* _capture_loop: the test of the while loop (line 250)
_capture_loop_test(t) ==
    /\ capture.thread[t] = "test"
    /\ capture' = [capture EXCEPT
                      !.thread[t] = IF capture.is_capturing
                                    THEN "capture" ELSE "dead"]
    /\ UNCHANGED <<storeVars, now, connVars, serverVars, callers,
                 libVars>>

\* _capture_loop: one capture, stored under capture_lock when it returned
\* pixels (lines 253-267)
_capture_loop_capture(t, ok) ==
    /\ capture.thread[t] = "capture"
    /\ capture' = [capture EXCEPT
                      !.thread[t] = "sleep",
                      !.last_capture = IF ok
                                       THEN [frame |-> screen, by |-> t]
                                       ELSE @]
    /\ UNCHANGED <<storeVars, now, connVars, serverVars, callers,
                 libVars>>

\* _capture_loop: the sleep ends (lines 269-273)
_capture_loop_sleep(t) ==
    /\ capture.thread[t] = "sleep"
    /\ capture' = [capture EXCEPT !.thread[t] = "test"]
    /\ UNCHANGED <<storeVars, now, connVars, serverVars, callers,
                 libVars>>

\* --------------------------------------------------------- receive_data
\* Bytes are scaled to one bit.  rx.stream holds the bytes the peer has
\* written and the socket has not yet delivered; rx.open is false once the
\* peer has closed its end.
Bytes == {0, 1}

Streams == UNION {[1..n -> Bytes] : n \in 0..MaxLen}

Receivers == {"RFBProtocol", "VNCConnection"}

Min(a, b) == IF a < b THEN a ELSE b

\* The value by which each class signals the end of the stream.
EndOfStream(kind) ==
    IF kind = "RFBProtocol" THEN <<"ConnectionError">> ELSE <<"None">>

\* What a socket error gives: the exception leaves RFBProtocol.receive_data,
\* VNCConnection.receive_data returns None.
SocketError(kind) ==
    IF kind = "RFBProtocol" THEN <<"socket.error">> ELSE <<"None">>

Socket(kind, stream) ==
    [kind |-> kind, stream |-> stream, open |-> TRUE, pc |-> "idle",
     length |-> 0, before |-> <<>>, data |-> <<>>, chunks |-> 0,
     result |-> <<>>]

\* Variant: the socket delivers more than bufsize bytes.
recv_unbounded(bufsize) ==
    IF rx.stream = <<>>
    THEN IF rx.open THEN {} ELSE {<<>>}
    ELSE {SubSeq(rx.stream, 1, k) : k \in 1..Len(rx.stream)}

\* socket.recv(bufsize): the chunks the call can return now.  It blocks
\* while nothing has arrived and the peer has not closed.
recv(bufsize) ==
    IF rx.stream = <<>>
    THEN IF rx.open THEN {} ELSE {<<>>}
    ELSE {SubSeq(rx.stream, 1, k) : k \in 1..Min(bufsize, Len(rx.stream))}

exceptRx ==
    <<storeVars, now, connVars, serverVars, callers, capture,
      pf, img, app, simple>>

\* receive_data(length): data = b"" (rfb.py 115, rfb_protocol.py 123)
receive_data(length) ==
    /\ rx.pc \in {"idle", "returned"}
    /\ rx' = [rx EXCEPT !.pc = "loop", !.length = length, !.data = <<>>,
                        !.before = rx.stream, !.chunks = 0, !.result = <<>>]
    /\ UNCHANGED exceptRx

\* One pass of the while loop (rfb.py 116-120, rfb_protocol.py 124-128)
receive_data_loop ==
    /\ rx.pc = "loop"
    /\ Len(rx.data) < rx.length
    /\ \E chunk \in recv(rx.length - Len(rx.data)) :
         rx' = IF chunk = <<>>
               THEN [rx EXCEPT !.pc = "eof", !.result = EndOfStream(rx.kind)]
               ELSE [rx EXCEPT
                        !.data = rx.data \o chunk,
                        !.chunks = @ + 1,
                        !.stream = SubSeq(rx.stream, Len(chunk) + 1,
                                          Len(rx.stream))]
    /\ UNCHANGED exceptRx

\* recv raises socket.error (rfb_protocol.py 130-131; not caught in rfb.py)
receive_data_error ==
    /\ rx.pc = "loop"
    /\ Len(rx.data) < rx.length
    /\ rx' = [rx EXCEPT !.pc = "error", !.result = SocketError(rx.kind)]
    /\ UNCHANGED exceptRx

\* The loop ends: return data (rfb.py 121, rfb_protocol.py 129)
receive_data_return ==
    /\ rx.pc = "loop"
    /\ Len(rx.data) >= rx.length
    /\ rx' = [rx EXCEPT !.pc = "returned", !.result = rx.data]
    /\ UNCHANGED exceptRx

\* The peer closes its end of the connection.
peer_shutdown ==
    /\ rx.open
    /\ rx' = [rx EXCEPT !.open = FALSE]
    /\ UNCHANGED exceptRx

\* ---------------------------------------------------------- PixelFormat
\* PixelFormat, a dataclass of ten fields (rfb.py lines 54-70)
PixelFormat(bpp, depth, be, tc, rmax, gmax, bmax, rshift, gshift, bshift) ==
    [bits_per_pixel |-> bpp, depth |-> depth, big_endian |-> be,
     true_colour |-> tc, red_max |-> rmax, green_max |-> gmax,
     blue_max |-> bmax, red_shift |-> rshift, green_shift |-> gshift,
     blue_shift |-> bshift]

\* struct formats "B" and "H" accept these values; others raise struct.error.
FitsB(v) == v \in 0..255

FitsH(v) == v \in 0..65535

Fits(f) ==
    /\ FitsB(f.bits_per_pixel) /\ FitsB(f.depth)
    /\ FitsH(f.red_max) /\ FitsH(f.green_max) /\ FitsH(f.blue_max)
    /\ FitsB(f.red_shift) /\ FitsB(f.green_shift) /\ FitsB(f.blue_shift)

\* Variant: the two bytes in little-endian order.
pack_H_little(v) == <<v % 256, v \div 256>>

\* struct.pack("!H", v): two bytes, most significant first.
pack_H(v) == <<v \div 256, v % 256>>

\* struct.unpack("!H", data[i:i+2])
unpack_H(data, i) == data[i] * 256 + data[i + 1]

Flag(b) == IF b THEN 1 ELSE 0

\* PixelFormat.pack: struct.pack("!BBBBHHHBBB3x", ...)
pack(f) ==
    <<f.bits_per_pixel, f.depth, Flag(f.big_endian), Flag(f.true_colour)>>
    \o pack_H(f.red_max) \o pack_H(f.green_max) \o pack_H(f.blue_max)
    \o <<f.red_shift, f.green_shift, f.blue_shift>>
    \o <<0, 0, 0>>

\* PixelFormat.unpack: struct.unpack("!BBBBHHHBBB3x", data), bool() of the
\* two flags.
unpack(data) ==
    PixelFormat(data[1], data[2], data[3] # 0, data[4] # 0,
                unpack_H(data, 5), unpack_H(data, 7), unpack_H(data, 9),
                data[11], data[12], data[13])

ByteInputs == {0, 8, 255, 256}
ShortInputs == {0, 255, 256, 65535, 65536}
ShiftInputs == {0, 16}

PixelFormats ==
    {PixelFormat(bpp, 24, be, tc, r, g, 255, rs, 8, 0) :
        bpp \in ByteInputs, be \in BOOLEAN, tc \in BOOLEAN,
        r \in ShortInputs, g \in ShortInputs, rs \in ShiftInputs}

NoBytes == <<>>

\* PixelFormat()
DefaultPixelFormat ==
    PixelFormat(32, 24, FALSE, TRUE, 255, 255, 255, 16, 8, 0)

exceptPf ==
    <<storeVars, now, connVars, serverVars, callers, capture,
      rx, img, app, simple>>

\* pf.value.pack()
PixelFormat_pack ==
    /\ pf.pc = "new"
    /\ pf' = IF Fits(pf.value)
             THEN [pf EXCEPT !.pc = "packed", !.packed = pack(pf.value)]
             ELSE [pf EXCEPT !.pc = "struct.error"]
    /\ UNCHANGED exceptPf

\* PixelFormat.unpack(packed)
PixelFormat_unpack ==
    /\ pf.pc = "packed"
    /\ pf' = [pf EXCEPT !.pc = "unpacked", !.unpacked = unpack(pf.packed)]
    /\ UNCHANGED exceptPf

\* ---------------------------------------------------------- ImageUtils
\* An image is its sequence of bytes, row after row; bytes are scaled to
\* one bit and the block size to BlockSize.
Slice(data, from, to) == SubSeq(data, from + 1, Min(to, Len(data)))

RECURSIVE Rows(_, _, _, _, _, _)
\* The loop of _extract_block from row to last_row.
Rows(data, row, last_row, x, width, img_width_bpp) ==
    IF row > last_row
    THEN <<>>
    ELSE LET bpp == img_width_bpp[2]
             from == (row * img_width_bpp[1] + x) * bpp
         IN  Slice(data, from, from + width * bpp)
             \o Rows(data, row + 1, last_row, x, width, img_width_bpp)

\* Variant: only the first row of the block is extracted.
_extract_block_row(data, x, y, width, height, img_width, bytes_per_pixel) ==
    Rows(data, y, y, x, width, <<img_width, bytes_per_pixel>>)

\* ImageUtils._extract_block
_extract_block(data, x, y, width, height, img_width, bytes_per_pixel) ==
    Rows(data, y, y + height - 1, x, width, <<img_width, bytes_per_pixel>>)

Rect(x, y, w, h) == [x |-> x, y |-> y, w |-> w, h |-> h]

RECURSIVE Blocks(_, _, _, _, _, _)
\* The two nested loops of detect_changes from the k-th block of the grid,
\* rows of blocks from top to bottom and each row from left to right.
Blocks(k, img1, img2, width, height, block_size) ==
    LET nx == (width + block_size - 1) \div block_size
        ny == (height + block_size - 1) \div block_size
        x == (k % nx) * block_size
        y == (k \div nx) * block_size
        block_width == Min(block_size, width - x)
        block_height == Min(block_size, height - y)
        bytes_per_pixel == Len(img1) \div (width * height)
        block1 == _extract_block(img1, x, y, block_width, block_height,
                                 width, bytes_per_pixel)
        block2 == _extract_block(img2, x, y, block_width, block_height,
                                 width, bytes_per_pixel)
    IN  IF k >= nx * ny
        THEN <<>>
        ELSE (IF block1 # block2
              THEN <<Rect(x, y, block_width, block_height)>>
              ELSE <<>>)
             \o Blocks(k + 1, img1, img2, width, height, block_size)

\* ImageUtils.detect_changes(img1, img2, width, height, block_size)
detect_changes(img1, img2, width, height, block_size) ==
    Blocks(0, img1, img2, width, height, block_size)

Heights == {1, 2, 3}

\* Images of one byte per pixel, and one-row images of two bytes per pixel.
Shapes ==
    {<<w, h, 1>> : w \in 1..MaxWidth, h \in Heights}
    \cup {<<w, 1, 2>> : w \in 1..MaxWidth}

Size(s) == s[1] * s[2] * s[3]

Blank(s) == [i \in 1..Size(s) |-> 0]

Striped(s) == [i \in 1..Size(s) |-> i % 2]

Image(s, img1, img2) ==
    [pc |-> "new", width |-> s[1], height |-> s[2], img1 |-> img1,
     img2 |-> img2, changes |-> <<>>]

Images ==
    UNION {{Image(s, img1, img2) :
               img1 \in {Blank(s), Striped(s)},
               img2 \in [1..Size(s) -> Bytes]} : s \in Shapes}

exceptImg ==
    <<storeVars, now, connVars, serverVars, callers, capture,
      rx, pf, app, simple>>

\* changes = ImageUtils.detect_changes(img1, img2, width, height, BlockSize)
ImageUtils_detect_changes ==
    /\ img.pc = "new"
    /\ img' = [img EXCEPT
                  !.pc = "done",
                  !.changes = detect_changes(img.img1, img.img2, img.width,
                                             img.height, BlockSize)]
    /\ UNCHANGED exceptImg

\* ------------------------------------------------- VNCServerApp (main.py)
\* The main thread is a stack of frames, the last one running.  A signal
\* handler runs on top of whatever the main thread was doing; sys.exit
\* raises SystemExit, which leaves every frame and runs the finally block
\* of run when run was inside its try statement.
Frame(fn, pc) == [fn |-> fn, pc |-> pc, raising |-> FALSE]

Args == [start_vnc : BOOLEAN, gui : BOOLEAN]

\* VNCServerApp() and the call of run(args) up to setup_signal_handlers
\* (lines 24-27, 57-63)
VNCServerApp(args) ==
    [args |-> args, vnc_server |-> FALSE, web_server |-> FALSE,
     running |-> FALSE, stack |-> <<Frame("run", "create")>>,
     exit |-> "none", signals |-> 0, in_loop |-> FALSE,
     stops |-> 0, web_stops |-> 0]

Top == app.stack[Len(app.stack)]

Running(fn, pc) ==
    /\ app.stack # <<>>
    /\ Top.fn = fn
    /\ Top.pc = pc

\* The stack with the pc of its last frame changed.
Goto(pc) == [app.stack EXCEPT ![Len(app.stack)].pc = pc]

Pop == SubSeq(app.stack, 1, Len(app.stack) - 1)

exceptApp ==
    <<storeVars, now, connVars, serverVars, callers, capture,
      rx, pf, img, simple>>

\* run: create_vnc_server(args) (line 67).  The VNCServer imported from
\* vnc_server.py takes host and port only, so that the call raises
\* TypeError; accepted is true for a VNCServer taking main.py's arguments.
run_create(accepted) ==
    /\ Running("run", "create")
    /\ app' = IF accepted
              THEN [app EXCEPT !.vnc_server = TRUE, !.stack = Goto("start")]
              ELSE [app EXCEPT !.stack = <<>>, !.exit = "TypeError"]
    /\ UNCHANGED exceptApp

\* run: vnc_server.start() when requested (lines 79-85)
run_start(ok) ==
    /\ Running("run", "start")
    /\ app' = IF app.args.start_vnc /\ ~ok
              THEN [app EXCEPT !.stack = <<>>, !.exit = "return False"]
              ELSE [app EXCEPT !.stack = Goto("gui")]
    /\ UNCHANGED exceptApp

\* run: the web GUI when requested, then running = True and the try
\* statement is entered (lines 88-114)
run_gui(ok) ==
    /\ Running("run", "gui")
    /\ app' = IF app.args.gui /\ ~ok
              THEN [app EXCEPT !.web_server = TRUE,
                               !.stack = <<>>, !.exit = "return False"]
              ELSE [app EXCEPT
                       !.web_server = app.args.gui,
                       !.running = TRUE,
                       !.stack = IF app.args.gui \/ app.args.start_vnc
                                 THEN Goto("loop") ELSE Goto("finally")]
    /\ UNCHANGED exceptApp

\* run: the finally block calls shutdown (lines 118-119)
run_finally ==
    /\ Running("run", "finally")
    /\ app' = [app EXCEPT
                  !.stack = Append(Goto("after"), Frame("shutdown", "flag"))]
    /\ UNCHANGED exceptApp

\* run: the finally block is done; the pending SystemExit goes on, or run
\* returns True (line 121)
run_return ==
    /\ Running("run", "after")
    /\ app' = [app EXCEPT
                  !.stack = <<>>,
                  !.exit = IF Top.raising THEN "SystemExit"
                                          ELSE "return True"]
    /\ UNCHANGED exceptApp

\* SIGINT or SIGTERM is delivered: signal_handler starts (lines 49-50)
signal(signum) ==
    /\ app.stack # <<>>
    /\ app.signals < MaxSignals
    /\ app' = [app EXCEPT
                  !.signals = @ + 1,
                  !.in_loop = @ \/ (app.signals = 0 /\ Top.fn = "run"
                                    /\ Top.pc = "loop"),
                  !.stack = Append(app.stack, Frame("signal_handler", "call"))]
    /\ UNCHANGED exceptApp

\* signal_handler: self.shutdown() (line 51)
signal_handler ==
    /\ Running("signal_handler", "call")
    /\ app' = [app EXCEPT
                  !.stack = Append(Goto("exit"), Frame("shutdown", "flag"))]
    /\ UNCHANGED exceptApp

\* signal_handler: sys.exit(0) (line 52)
sys_exit ==
    /\ Running("signal_handler", "exit")
    /\ app' = IF app.stack[1].pc = "loop"
              THEN [app EXCEPT
                       !.stack = <<[Frame("run", "finally") EXCEPT
                                       !.raising = TRUE]>>]
              ELSE [app EXCEPT !.stack = <<>>, !.exit = "SystemExit"]
    /\ UNCHANGED exceptApp

\* shutdown: running = False (line 146)
shutdown_flag ==
    /\ Running("shutdown", "flag")
    /\ app' = [app EXCEPT !.running = FALSE, !.stack = Goto("web")]
    /\ UNCHANGED exceptApp

\* shutdown: web_server.stop() (lines 148-150)
shutdown_web ==
    /\ Running("shutdown", "web")
    /\ app' = [app EXCEPT
                  !.web_stops = IF app.web_server THEN @ + 1 ELSE @,
                  !.stack = Goto("vnc")]
    /\ UNCHANGED exceptApp

\* shutdown: vnc_server.stop(), and the return (lines 152-156)
shutdown_vnc ==
    /\ Running("shutdown", "vnc")
    /\ app' = [app EXCEPT
                  !.stops = IF app.vnc_server THEN @ + 1 ELSE @,
                  !.stack = Pop]
    /\ UNCHANGED exceptApp

\* ------------------------------------ VNCServer (core_vnc_server.py)
\* Listening sockets are numbered in the order start_server creates them,
\* client sockets in the order they are accepted; the t-th acceptor thread
\* is the one started by the call that created socket t.  A socket object
\* that nothing refers to any more is closed by the interpreter.
SocketIds == 1..MaxStarts

ClientIds == 1..MaxClients

NoAcceptor == [pc |-> "unborn", on |-> None, held |-> None]

\* VNCServer(host, port) (lines 29-35)
SimpleVNCServer ==
    [is_running |-> FALSE, server_socket |-> None,
     listen |-> [s \in SocketIds |-> "unused"],
     acceptor |-> [t \in SocketIds |-> NoAcceptor],
     clients |-> <<>>,
     csock |-> [k \in ClientIds |-> "none"],
     handler |-> [k \in ClientIds |-> "unborn"],
     caller |-> "idle", stopped |-> FALSE]

\* Some acceptor thread is blocked in accept() on socket s.
Accepting(acc, s) ==
    \E t \in SocketIds : acc[t].pc = "accepting" /\ acc[t].on = s

\* The listening sockets once no reference to socket s is left, current
\* being self.server_socket and acc the acceptor threads.
Collected(listen, s, current, acc) ==
    IF s # None /\ s # current /\ ~Accepting(acc, s)
    THEN [listen EXCEPT ![s] = IF @ = "unused" THEN @ ELSE "closed"]
    ELSE listen

exceptSimple ==
    <<storeVars, now, connVars, serverVars, callers, capture,
      rx, pf, img, app>>

\* start_server (lines 37-55); bind_ok: bind and listen did not raise,
\* which they do while another socket listens on the port.  The socket
\* is assigned to self.server_socket before it is bound.
start_server(bind_ok) ==
    /\ simple.caller = "idle"
    /\ \E s \in SocketIds :
         /\ simple.listen[s] = "unused"
         /\ \A r \in SocketIds : r < s => simple.listen[r] # "unused"
         /\ LET freed == Collected(simple.listen, simple.server_socket, s,
                                   simple.acceptor)
                kept == [freed EXCEPT ![s] = IF bind_ok THEN "listening"
                                                        ELSE "unbound"]
            IN  /\ bind_ok => \A r \in SocketIds : freed[r] # "listening"
                /\ simple' =
                     IF bind_ok
                     THEN [simple EXCEPT
                              !.server_socket = s, !.listen = kept,
                              !.is_running = TRUE, !.stopped = FALSE,
                              !.acceptor[s] =
                                  [NoAcceptor EXCEPT !.pc = "test"]]
                     ELSE [simple EXCEPT
                              !.server_socket = s, !.listen = kept]
    /\ UNCHANGED exceptSimple

\* stop_server: is_running = False (line 59)
stop_server ==
    /\ simple.caller = "idle"
    /\ simple' = [simple EXCEPT !.is_running = FALSE, !.caller = "close"]
    /\ UNCHANGED exceptSimple

\* stop_server: every socket of a copy of the list is closed (lines 62-66)
stop_server_close ==
    /\ simple.caller = "close"
    /\ simple' = [simple EXCEPT
                     !.caller = "clear",
                     !.csock = [k \in ClientIds |->
                                   IF k \in Range(simple.clients)
                                   THEN "closed" ELSE simple.csock[k]]]
    /\ UNCHANGED exceptSimple

\* stop_server: self.clients.clear() (line 67)
stop_server_clear ==
    /\ simple.caller = "clear"
    /\ simple' = [simple EXCEPT !.caller = "listener", !.clients = <<>>]
    /\ UNCHANGED exceptSimple

\* stop_server: the server socket is closed, True is returned (lines 70-77)
stop_server_return ==
    /\ simple.caller = "listener"
    /\ simple' = [simple EXCEPT
                     !.caller = "idle",
                     !.stopped = TRUE,
                     !.listen = IF simple.server_socket = None
                                THEN @
                                ELSE [@ EXCEPT ![simple.server_socket] =
                                                   "closed"]]
    /\ UNCHANGED exceptSimple

\* _accept_connections: the test of the loop, and the call of accept on
\* what self.server_socket is now (lines 81-84)
_accept_connections_test(t) ==
    /\ simple.acceptor[t].pc = "test"
    /\ simple' =
         IF ~simple.is_running
         THEN [simple EXCEPT !.acceptor[t] = [NoAcceptor EXCEPT !.pc = "dead"]]
         ELSE [simple EXCEPT !.acceptor[t] =
                  [pc |-> "accepting", on |-> simple.server_socket,
                   held |-> None]]
    /\ UNCHANGED exceptSimple

\* accept returns the socket of a new client (line 84)
_accept_connections_accept(t) ==
    /\ simple.acceptor[t].pc = "accepting"
    /\ simple.listen[simple.acceptor[t].on] = "listening"
    /\ \E k \in ClientIds :
         /\ simple.csock[k] = "none"
         /\ \A j \in ClientIds : j < k => simple.csock[j] # "none"
         /\ LET acc == [simple.acceptor EXCEPT
                           ![t] = [pc |-> "accepted", on |-> None,
                                   held |-> k]]
            IN  simple' = [simple EXCEPT
                              !.acceptor = acc,
                              !.csock[k] = "open",
                              !.listen = Collected(simple.listen,
                                             simple.acceptor[t].on,
                                             simple.server_socket, acc)]
    /\ UNCHANGED exceptSimple

\* accept raises on a socket that is closed or does not listen: the
\* thread leaves its loop (lines 97-100)
_accept_connections_raise(t) ==
    /\ simple.acceptor[t].pc = "accepting"
    /\ simple.listen[simple.acceptor[t].on] # "listening"
    /\ LET acc == [simple.acceptor EXCEPT
                      ![t] = [NoAcceptor EXCEPT !.pc = "dead"]]
       IN  simple' = [simple EXCEPT
                         !.acceptor = acc,
                         !.listen = Collected(simple.listen,
                                        simple.acceptor[t].on,
                                        simple.server_socket, acc)]
    /\ UNCHANGED exceptSimple

\* _accept_connections: the client is appended and its thread started
\* (lines 87-95)
_accept_connections_append(t) ==
    /\ simple.acceptor[t].pc = "accepted"
    /\ LET k == simple.acceptor[t].held
       IN  simple' = [simple EXCEPT
                         !.clients = Append(@, k),
                         !.handler[k] = "send",
                         !.acceptor[t] = [NoAcceptor EXCEPT !.pc = "test"]]
    /\ UNCHANGED exceptSimple

\* _handle_client: the version string is sent (lines 105-106)
_handle_client_send(k) ==
    /\ simple.handler[k] = "send"
    /\ simple' = [simple EXCEPT
                     !.handler[k] = IF simple.csock[k] = "open"
                                    THEN "loop" ELSE "finally"]
    /\ UNCHANGED exceptSimple

\* _handle_client: the test of the message loop (line 109)
_handle_client_loop(k) ==
    /\ simple.handler[k] = "loop"
    /\ simple' = [simple EXCEPT
                     !.handler[k] = IF simple.is_running
                                    THEN "recv" ELSE "finally"]
    /\ UNCHANGED exceptSimple

\* _handle_client: recv returns data, which is answered, or returns
\* nothing, or raises (lines 110-122)
_handle_client_recv(k, data) ==
    /\ simple.handler[k] = "recv"
    /\ simple' = [simple EXCEPT
                     !.handler[k] = IF simple.csock[k] = "open" /\ data
                                    THEN "loop" ELSE "finally"]
    /\ UNCHANGED exceptSimple

\* _handle_client: the finally block (lines 126-133)
_handle_client_finally(k) ==
    /\ simple.handler[k] = "finally"
    /\ simple' = [simple EXCEPT
                     !.handler[k] = "done",
                     !.csock[k] = "closed",
                     !.clients = Remove(@, k)]
    /\ UNCHANGED exceptSimple

\* ---------------------------------------------------------------- Init
\* The objects of the earlier sections after construction.
CoreInit ==
    /\ now = T0
    /\ users = [x \in {"admin"} |-> User("password", T0)]
    /\ file = users
    /\ ret = Ret("add_user", "admin", "password", TRUE)
    /\ hist = [x \in Usernames |-> NoHist]
    /\ conn = NoConn
    /\ vhist = [count |-> 0, lastAt |-> None]
    /\ client = [c \in Sockets |-> NoClient]
    /\ clients = <<>>
    /\ upd = [pc |-> "off", todo |-> <<>>, data |-> None, failed |-> FALSE,
              serving |-> None]
    /\ screen = 0
    /\ callers = [t \in CallerIds |-> NoCaller]
    /\ capture = ScreenCaptureManager

Init ==
    /\ CoreInit
    /\ server = VNCServer("")
    /\ rx = None
    /\ pf = None
    /\ img = None
    /\ app = None
    /\ simple = None

\* The same, the server constructed with or without a password.
InitServer ==
    /\ CoreInit
    /\ server \in {VNCServer(p) : p \in ServerPasswords}
    /\ rx = None
    /\ pf = None
    /\ img = None
    /\ app = None
    /\ simple = None

\* The store used from one thread, by the administrator of one account.
Next ==
    \/ \E p \in Passwords : add_user("admin", p)
    \/ remove_user("admin")
    \/ \E p \in Passwords, q \in Passwords : change_password("admin", p, q)
    \/ \E p \in Passwords : authenticate("admin", p)
    \/ Tick(MaxTime)

Spec == Init /\ [][Next]_vars

\* The store with two accounts.
NextUsers ==
    \/ \E u \in Usernames, p \in Passwords : add_user(u, p)
    \/ \E u \in Usernames : remove_user(u)
    \/ \E u \in Usernames, p \in Passwords, q \in Passwords :
           change_password(u, p, q)
    \/ \E u \in Usernames, p \in Passwords : authenticate(u, p)
    \/ Tick(MaxTimeUsers)

SpecUsers == Init /\ [][NextUsers]_vars

\* The admin account authenticated from two threads at once.
NextThreads ==
    \/ \E t \in CallerIds, p \in Passwords : authenticate_enter(t, p)
    \/ \E t \in CallerIds : authenticate_verified(t)
    \/ \E t \in CallerIds : authenticate_increment(t)
    \/ \E t \in CallerIds : save_users_dump(t)
    \/ \E t \in CallerIds : save_users_write(t)

SpecThreads == Init /\ [][NextThreads]_vars

\* The store used from one thread, the program restarted at any time over
\* whatever is found at auth_file.
NextLoad ==
    \/ \E p \in Passwords : add_user("admin", p)
    \/ remove_user("admin")
    \/ \E p \in Passwords, q \in Passwords : change_password("admin", p, q)
    \/ \E p \in Passwords : authenticate("admin", p)
    \/ \E kind \in FileKinds : load_users(kind)
    \/ Tick(MaxTimeUsers)

SpecLoad == Init /\ [][NextLoad]_vars

\* One thread starting and stopping continuous capture while the screen
\* changes.
NextCapture ==
    \/ start_continuous_capture
    \/ stop_continuous_capture
    \/ \E timeout \in BOOLEAN : join(timeout)
    \/ \E t \in CaptureIds : _capture_loop_test(t)
    \/ \E t \in CaptureIds, ok \in BOOLEAN : _capture_loop_capture(t, ok)
    \/ \E t \in CaptureIds : _capture_loop_sleep(t)
    \/ \E f \in Frames : ScreenChange(f)

SpecCapture == Init /\ [][NextCapture]_vars

\* Connections served with the store's callback while the administrator
\* manages the admin account.
NextConn ==
    \/ \E cb \in BOOLEAN : VNCConnection(cb)
    \/ start
    \/ \E valid \in BOOLEAN : start_version(valid)
    \/ \E c \in SecurityTypes, ch \in Challenges :
           handle_authentication_choice(c, ch)
    \/ \E r \in Responses : handle_authentication_response(r)
    \/ handle_initialization
    \/ \E t \in MessageTypes, n \in 0..MaxCount : handle_client_messages(t, n)
    \/ receive_failed
    \/ \E p \in Passwords : add_user("admin", p)
    \/ remove_user("admin")
    \/ \E p \in Passwords, q \in Passwords : change_password("admin", p, q)
    \/ Tick(MaxTime)

SpecConn == Init /\ [][NextConn]_vars

\* The vnc/server VNCServer: its accept loop, one thread per client, the
\* update thread, and the screen.  The clients send ClientInit 1 as the
\* viewer of this repository does, default formats and encodings, and no
\* pointer events; every screen capture succeeds.
NextServer ==
    \/ \E ok \in BOOLEAN : VNCServer_start(ok)
    \/ VNCServer_stop
    \/ \E c \in Sockets : accept(c)
    \/ \E c \in Sockets : _do_handshake(c)
    \/ \E c \in Sockets, t \in SecurityTypes, ch \in Challenges :
           _do_authentication_choice(c, t, ch)
    \/ \E c \in Sockets, r \in Responses : _do_authentication_response(c, r)
    \/ \E c \in Sockets : client_init_byte(c, 1, DefaultBpp)
    \/ \E c \in Sockets :
           client_message(c, 0, DefaultBpp, <<>>, FALSE, FullRect, FALSE)
    \/ \E c \in Sockets :
           client_message(c, SET_ENCODINGS, DefaultBpp, <<0>>, FALSE,
                          FullRect, FALSE)
    \/ \E c \in Sockets, inc \in BOOLEAN, rect \in RequestRects :
           client_message(c, FRAMEBUFFER_UPDATE_REQUEST, DefaultBpp, <<>>,
                          inc, rect, FALSE)
    \/ \E c \in Sockets, t \in {KEY_EVENT, 6} :
           client_message(c, t, DefaultBpp, <<>>, FALSE, FullRect, FALSE)
    \/ \E c \in Sockets : receive_raises(c)
    \/ \E f \in Frames : ScreenChange(f)
    \/ update_loop_begin(TRUE)
    \/ update_loop_client
    \/ \E ok \in BOOLEAN : update_loop_sent(ok)
    \/ update_loop_exit

SpecServer == InitServer /\ [][NextServer]_vars

\* The same server with one client that sends every kind of message.
NextServerLoop ==
    \/ \E ok \in BOOLEAN : VNCServer_start(ok)
    \/ VNCServer_stop
    \/ accept(1)
    \/ _do_handshake(1)
    \/ \E t \in SecurityTypes, ch \in Challenges :
           _do_authentication_choice(1, t, ch)
    \/ \E r \in Responses : _do_authentication_response(1, r)
    \/ \E shared \in {0, 1}, bpp \in Bpps : client_init_byte(1, shared, bpp)
    \/ \E bpp \in Bpps :
           client_message(1, 0, bpp, <<>>, FALSE, FullRect, FALSE)
    \/ \E ids \in EncodingLists :
           client_message(1, SET_ENCODINGS, DefaultBpp, ids, FALSE, FullRect,
                          FALSE)
    \/ \E inc \in BOOLEAN, rect \in RequestRects :
           client_message(1, FRAMEBUFFER_UPDATE_REQUEST, DefaultBpp, <<>>,
                          inc, rect, FALSE)
    \/ \E gui \in BOOLEAN, pos \in PointerPositions :
           client_message(1, POINTER_EVENT, DefaultBpp, <<>>, FALSE, pos, gui)
    \/ \E t \in MessageTypes \ {0, 2, 3, 5} :
           client_message(1, t, DefaultBpp, <<>>, FALSE, FullRect, FALSE)
    \/ receive_raises(1)
    \/ peer_close(1)
    \/ \E f \in Frames : ScreenChange(f)
    \/ \E ok \in BOOLEAN : update_loop_begin(ok)
    \/ update_loop_client
    \/ \E ok \in BOOLEAN : update_loop_sent(ok)
    \/ update_loop_exit

SpecServerLoop == InitServer /\ [][NextServerLoop]_vars

\* The same; a handler thread blocked in a receive that raises is woken.
SpecServerFair ==
    InitServer /\ [][NextServerLoop]_vars /\ WF_vars(receive_raises(1))

\* receive_data called on a socket whose peer has written any stream, split
\* into chunks in any way, and may close at any time.
InitRecv ==
    /\ CoreInit
    /\ server = VNCServer("")
    /\ rx \in {Socket(k, s) : k \in Receivers, s \in Streams}
    /\ pf = None
    /\ img = None
    /\ app = None
    /\ simple = None

NextRecv ==
    \/ \E n \in 0..(MaxLen + 1) : receive_data(n)
    \/ receive_data_loop
    \/ receive_data_error
    \/ receive_data_return
    \/ peer_shutdown

SpecRecv == InitRecv /\ [][NextRecv]_vars

\* Any PixelFormat packed, and the bytes unpacked.
InitPixelFormat ==
    /\ CoreInit
    /\ server = VNCServer("")
    /\ rx = None
    /\ pf \in {[pc |-> "new", value |-> f, packed |-> NoBytes,
                unpacked |-> DefaultPixelFormat] : f \in PixelFormats}
    /\ img = None
    /\ app = None
    /\ simple = None

NextPixelFormat ==
    \/ PixelFormat_pack
    \/ PixelFormat_unpack

SpecPixelFormat == InitPixelFormat /\ [][NextPixelFormat]_vars

\* detect_changes applied to any two images of the same shape.
InitImage ==
    /\ CoreInit
    /\ server = VNCServer("")
    /\ rx = None
    /\ pf = None
    /\ img \in Images
    /\ app = None
    /\ simple = None

NextImage == ImageUtils_detect_changes

SpecImage == InitImage /\ [][NextImage]_vars

\* The main application with any arguments, signals arriving at any time.
InitApp ==
    /\ CoreInit
    /\ server = VNCServer("")
    /\ rx = None
    /\ pf = None
    /\ img = None
    /\ app \in {VNCServerApp(a) : a \in Args}
    /\ simple = None

NextApp ==
    \/ \E accepted \in BOOLEAN : run_create(accepted)
    \/ \E ok \in BOOLEAN : run_start(ok)
    \/ \E ok \in BOOLEAN : run_gui(ok)
    \/ run_finally
    \/ run_return
    \/ \E signum \in {2, 15} : signal(signum)
    \/ signal_handler
    \/ sys_exit
    \/ shutdown_flag
    \/ shutdown_web
    \/ shutdown_vnc

SpecApp == InitApp /\ [][NextApp]_vars

\* The simple server started and stopped by one thread while clients
\* connect.
InitSimple ==
    /\ CoreInit
    /\ server = VNCServer("")
    /\ rx = None
    /\ pf = None
    /\ img = None
    /\ app = None
    /\ simple = SimpleVNCServer

NextSimple ==
    \/ \E bind_ok \in BOOLEAN : start_server(bind_ok)
    \/ stop_server
    \/ stop_server_close
    \/ stop_server_clear
    \/ stop_server_return
    \/ \E t \in SocketIds : _accept_connections_test(t)
    \/ \E t \in SocketIds : _accept_connections_accept(t)
    \/ \E t \in SocketIds : _accept_connections_raise(t)
    \/ \E t \in SocketIds : _accept_connections_append(t)
    \/ \E k \in ClientIds : _handle_client_send(k)
    \/ \E k \in ClientIds : _handle_client_loop(k)
    \/ \E k \in ClientIds, data \in BOOLEAN : _handle_client_recv(k, data)
    \/ \E k \in ClientIds : _handle_client_finally(k)

SpecSimple == InitSimple /\ [][NextSimple]_vars

TypeOK ==
    /\ now \in T0..MaxTime
    /\ DOMAIN users \subseteq Usernames
    /\ \A u \in DOMAIN users : users[u].login_attempts \in 0..max_login_attempts
\* ================================================================ claims
CurrentPassword(u) == users[u].password_hash[2]
SecurityOK == Msg("security_result", 0)
SecurityFailed == Msg("security_result", 1)

\* C1: with an auth callback only VNC_AUTH is offered, and a client that
\* answers with a security type that was not offered is sent SecurityResult
\* failure and the connection is closed: no SecurityResult OK, no ServerInit,
\* no message loop.
C1_UnofferedTypeRejected ==
    conn.auth_callback =>
        /\ Len(conn.sent) >= 2 =>
               conn.sent[2] = Msg("security_types", SECURITY_VNC_AUTH)
        /\ (conn.choice # None /\ conn.choice # SECURITY_VNC_AUTH) =>
               /\ conn.pc = "closed"
               /\ SecurityFailed \in Range(conn.sent)
               /\ SecurityOK \notin Range(conn.sent)
               /\ Msg("server_init", 0) \notin Range(conn.sent)

\* C2: once a user has had 3 consecutive failed authenticate calls, every
\* authenticate call made less than 300 seconds after the third failure
\* returns failure, whatever the password.
C2_LockoutFromThirdFailure ==
    [][\A u \in Usernames, p \in Passwords :
          (/\ authenticate(u, p)
           /\ hist[u].streak >= max_login_attempts
           /\ now - hist[u].thirdAt < lockout_duration)
          => ~ret'.ok]_vars

\* C3: authenticate(u, p) right after a successful add_user(u, p) succeeds,
\* and an authenticate with the correct password made more than 300 seconds
\* after the last wrong attempt succeeds (the lockout expires).
C3_AddThenAuthAndExpiry ==
    [][\A u \in Usernames, p \in Passwords :
          authenticate(u, p) =>
              /\ ret = Ret("add_user", u, p, TRUE) => ret'.ok
              /\ (/\ u \in DOMAIN users
                  /\ PasswordMatches(u, p)
                  /\ hist[u].lastWrongAt # None
                  /\ now - hist[u].lastWrongAt > 300) => ret'.ok]_vars

\* C3 witness: a login succeeded more than 300 s after the last wrong
\* attempt on an account that had been locked.
C3_Witness ==
    /\ ret.op = "authenticate" /\ ret.ok
    /\ hist[ret.user].thirdAt # None
    /\ hist[ret.user].lastWrongAt # None
    /\ users[ret.user].last_login - hist[ret.user].lastWrongAt > 300

\* C4: a wrong challenge response is answered with SecurityResult = 1 and
\* raises the admin failure counter of the store by exactly one.
C4_WrongResponseCounted ==
    [][\A r \in Responses :
          (/\ handle_authentication_response(r)
           /\ "admin" \in DOMAIN users
           /\ r # vnc_challenge_response("admin", CurrentPassword("admin"),
                                         conn.challenge))
          => /\ Last(conn'.sent) = SecurityFailed
             /\ users'["admin"].login_attempts =
                    users["admin"].login_attempts + 1]_vars

\* C5: after three consecutive handshakes that fail verification, a fourth
\* handshake within 300 seconds is rejected, even with the right response.
C5_HandshakeLockout ==
    [][\A r \in Responses :
          (/\ handle_authentication_response(r)
           /\ vhist.count >= max_login_attempts
           /\ now - vhist.lastAt < lockout_duration)
          => Last(conn'.sent) = SecurityFailed]_vars

\* C6: the callback accepts a response only if it is the transform of the
\* challenge under the admin user's currently stored password.
C6_VerifiesCurrentPassword ==
    [][\A r \in Responses :
          (handle_authentication_response(r) /\ conn'.authenticated)
          => /\ "admin" \in DOMAIN users
             /\ r = vnc_challenge_response("admin", CurrentPassword("admin"),
                                           conn.challenge)]_vars

\* C7: authenticate on a user who is locked out returns failure and leaves
\* the user table and the persisted file unchanged.
C7_LockedLeavesRecord ==
    [][\A u \in Usernames, p \in Passwords :
          (authenticate(u, p) /\ Locked(u))
          => /\ ~ret'.ok
             /\ users' = users
             /\ file' = file]_vars

\* C7 witness: the correct password has just been refused for a locked user.
C7_Witness ==
    /\ ret.op = "authenticate" /\ ~ret.ok
    /\ Locked(ret.user)
    /\ PasswordMatches(ret.user, ret.pw)
    /\ file = users

\* C8: after a successful authenticate(u, p) the failure counter of u is 0
\* and last_login is the time of the call; u is locked only after 3 failed
\* attempts with no successful one between them.
C8_SuccessResets ==
    /\ [][\A u \in Usernames, p \in Passwords :
             (authenticate(u, p) /\ ret'.ok)
             => /\ users'[u].login_attempts = 0
                /\ users'[u].last_login = now]_vars
    /\ [](\A u \in Usernames :
             Locked(u) => hist[u].streak >= max_login_attempts)

\* C8 witness: a login succeeded after earlier wrong attempts.
C8_Witness ==
    /\ ret.op = "authenticate" /\ ret.ok
    /\ hist[ret.user].lastWrongAt # None
    /\ users[ret.user].login_attempts = 0
    /\ users[ret.user].last_login = now

\* C9: a failed authenticate call never changes the user's last_login.
C9_FailureKeepsLastLogin ==
    [][\A u \in Usernames, p \in Passwords :
          (authenticate(u, p) /\ ~ret'.ok /\ u \in DOMAIN users)
          => users'[u].last_login = users[u].last_login]_vars

\* C10: add_user succeeds exactly when the name is absent and otherwise
\* leaves the table and the file unchanged; remove_user succeeds exactly
\* when the name is present and otherwise changes nothing.
C10_AddRemove ==
    [][\A u \in Usernames :
          /\ \A p \in Passwords :
                add_user(u, p) =>
                    /\ ret'.ok <=> u \notin DOMAIN users
                    /\ u \in DOMAIN users => users' = users /\ file' = file
                    /\ u \in DOMAIN users'
                    /\ \A x \in DOMAIN users \ {u} :
                          x \in DOMAIN users' /\ users'[x] = users[x]
          /\ remove_user(u) =>
                /\ ret'.ok <=> u \in DOMAIN users
                /\ u \notin DOMAIN users => users' = users /\ file' = file
                /\ u \notin DOMAIN users'
                /\ \A x \in DOMAIN users \ {u} :
                      x \in DOMAIN users' /\ users'[x] = users[x]]_vars

\* C10 witness: add_user was refused for an existing account with a history
\* while a second account exists.
C10_Witness ==
    /\ ret.op = "add_user" /\ ~ret.ok
    /\ DOMAIN users = Usernames
    /\ users[ret.user].login_attempts > 0

ServerInit == Msg("server_init", 0)
Handshaking == {"wait_version", "wait_choice", "wait_response"}

\* C12: a server without password has written, once ServerInit is out,
\* exactly the version, the security types 01 01, SecurityResult OK and
\* ServerInit, in this order.
C12_NoPasswordHandshake ==
    \A c \in Sockets :
        (server.password = "" /\ ServerInit \in Range(client[c].out)) =>
            client[c].out = <<Msg("version", 8),
                              Msg("security_types", SECURITY_NONE),
                              SecurityOK, ServerInit>>

\* C13: ServerInit is written only after the ClientInit byte was read as
\* ClientInit, and that byte is never taken for a message type.
C13_ClientInitRead ==
    \A c \in Sockets :
        /\ ServerInit \in Range(client[c].out) =>
               client[c].client_init = "read"
        /\ client[c].client_init # "as_message"

\* C14: a message of unknown type (here 1) read in the message loop ends
\* the loop and closes the connection.
C14_UnknownTypeFatal ==
    [][\A c \in Sockets :
          client_message(c, 1, DefaultBpp, <<>>, FALSE, FullRect, FALSE)
              => (client'[c].pc = "closed" /\ client'[c].socket = "closed")
      ]_vars

\* C15: the number of open connections never exceeds max_connections.
C15_ConnectionLimit ==
    Cardinality({c \in Sockets : client[c].socket = "open"})
        <= max_connections

\* C16: on a connection that stays open, update_requested is cleared only
\* by the step that completes the write of a FramebufferUpdate to it.
C16_RequestNeverDropped ==
    [][\A c \in Sockets :
          (/\ client[c].update_requested
           /\ ~client'[c].update_requested
           /\ client'[c].socket = "open")
              => (upd.pc = "sending" /\ Head(upd.todo) = c)]_vars

\* C17: when the update loop handles an incremental request of a client
\* and the captured screen differs from the last frame written to that
\* client, it writes an update to it.
C17_PerConnectionChange ==
    [][\A c \in Sockets :
          (/\ update_loop_client
           /\ Head(upd.todo) = c
           /\ client[c].incremental_update
           /\ client[c].socket = "open"
           /\ upd.data # client[c].update.frame)
              => upd'.pc = "sending"]_vars

C19_RectangleInBounds ==
    \A c \in Sockets :
        client[c].update # NoUpdate =>
            LET r == client[c].update
            IN  /\ 0 <= r.x /\ r.x < r.x + r.w /\ r.x + r.w <= screen_width
                /\ 0 <= r.y /\ r.y < r.y + r.h /\ r.y + r.h <= screen_height

\* An update was written in answer to a request for a region that reaches
\* outside the framebuffer.
C19_Witness ==
    \E c \in Sockets :
        /\ client[c].update.frame # None
        /\ client[c].update.req = OutOfBoundsRect
        /\ OutOfBoundsRect.x + OutOfBoundsRect.w > screen_width

\* C20: the payload of every Raw rectangle is w * h * (bits_per_pixel / 8)
\* bytes long for the client's pixel format.
C20_RawPayloadLength ==
    \A c \in Sockets :
        client[c].update # NoUpdate =>
            client[c].update.len =
                client[c].update.w * client[c].update.h
                    * (client[c].pixel_format \div 8)

\* C21: after a SetEncodings message the client's encodings are the ids of
\* the message that are EncodingType values, in the order sent, the
\* pseudo-encodings -223 and -239 included.
C21_SignedEncodings ==
    [][\A c \in Sockets, ids \in EncodingLists :
          (/\ client_message(c, SET_ENCODINGS, DefaultBpp, ids, FALSE,
                             FullRect, FALSE)
           /\ client'[c].pc = "loop")
              => client'[c].encodings =
                     SelectSeq(ids, LAMBDA e : e \in EncodingTypeValues)]_vars

\* C22: the position a PointerEvent hands to the display lies inside the
\* framebuffer: 0 <= x < screen_width and 0 <= y < screen_height.
C22_PointerClamped ==
    \A c \in Sockets :
        client[c].pointer # NoPointer =>
            /\ 0 <= client[c].pointer.x /\ client[c].pointer.x < screen_width
            /\ 0 <= client[c].pointer.y /\ client[c].pointer.y < screen_height

\* C23: when stop returns the server is not running, the listener is
\* closed, the client table is empty and no accepted socket is open, those
\* of connections in the middle of their handshake included.
C23_StopClosesEverything ==
    [][VNCServer_stop =>
          /\ ~server'.running
          /\ server'.listener # "open"
          /\ clients' = <<>>
          /\ \A c \in Sockets : client'[c].socket # "open"]_vars

\* C24: stop leaves the server not running, without clients and without an
\* open listener; a second stop right after it changes nothing, and neither
\* does stop on a server that was never started.
C24_StopIdempotent ==
    [][/\ ~server.started =>
             /\ StopResult.server = server
             /\ StopResult.client = client
             /\ StopResult.clients = clients
       /\ VNCServer_stop =>
             /\ ~server'.running
             /\ server'.listener # "open"
             /\ clients' = <<>>
             /\ \A c \in Sockets : client'[c].active => client[c].active
             /\ StopResult'.server = server'
             /\ StopResult'.client = client'
             /\ StopResult'.clients = clients']_vars

\* A started server was stopped while a client was in its message loop.
C24_Witness ==
    /\ server.started
    /\ ~server.running
    /\ server.listener = "closed"
    /\ clients = <<>>
    /\ \E c \in Sockets : /\ client[c].pc = "loop"
                          /\ client[c].socket = "closed"
                          /\ ~client[c].active

IsClosed(c) ==
    /\ client[c].pc = "closed"
    /\ ~client[c].active
    /\ client[c].socket = "closed"
    /\ c \notin Range(clients)

\* C25: a receive that raises, and a write that fails, leave the
\* connection inactive, its socket closed and the client out of the table;
\* a closed connection stays so and is written no further update; and a
\* connection whose peer closed is eventually closed with its thread ended.
C25_ErrorCloses ==
    /\ [][\A c \in Sockets :
             /\ receive_raises(c) => IsClosed(c)'
             /\ (/\ upd.pc = "sending"
                 /\ Head(upd.todo) = c
                 /\ update_loop_sent(FALSE)) =>
                    /\ ~client'[c].active
                    /\ client'[c].socket = "closed"
                    /\ c \notin Range(clients')
             /\ client[c].socket = "closed" =>
                    /\ ~client'[c].active
                    /\ client'[c].socket = "closed"
                    /\ c \notin Range(clients')
                    /\ client'[c].update \in {client[c].update, NoUpdate}
         ]_vars
    /\ \A c \in Sockets : (client[c].socket = "eof") ~> IsClosed(c)

\* The peer of a listed client with a pending update request has closed.
C25_Witness ==
    \E c \in Sockets :
        /\ client[c].socket = "eof"
        /\ c \in Range(clients)
        /\ client[c].update_requested
        /\ client[c].update.frame # None

\* A step in which connection c fails: a receive raises, the security
\* phase is refused, or a write of the update thread to c fails.
ConnectionError(c) ==
    \/ receive_raises(c)
    \/ \E t \in SecurityTypes, ch \in Challenges :
           /\ _do_authentication_choice(c, t, ch)
           /\ client'[c].pc = "closed"
    \/ \E r \in Responses :
           /\ _do_authentication_response(c, r)
           /\ client'[c].pc = "closed"
           /\ ~client'[c].authenticated
    \/ /\ upd.pc = "sending"
       /\ Head(upd.todo) = c
       /\ \E ok \in BOOLEAN : update_loop_sent(ok)
       /\ ~client'[c].active

\* C26: an error on connection c leaves the running flag and the listener
\* as they are, does not end the update thread, and leaves every other
\* client's record and its place in the client table untouched.
C26_ErrorStaysLocal ==
    [][\A c \in Sockets :
          ConnectionError(c) =>
              /\ server'.running = server.running
              /\ server'.listener = server.listener
              /\ upd'.pc \in {"sleep", "iter", "sending"} \cup {upd.pc}
              /\ \A d \in Sockets \ {c} :
                    /\ client'[d] = client[d]
                    /\ (d \in Range(clients')) = (d \in Range(clients))
      ]_vars

\* One connection was closed while the server runs on and another client,
\* which has been sent an update, is still connected and listed.
C26_Witness ==
    /\ server.running
    /\ upd.pc # "done"
    /\ \E c \in Sockets, d \in Sockets :
          /\ client[c].pc = "closed"
          /\ client[d].pc = "loop"
          /\ client[d].socket = "open"
          /\ d \in Range(clients)
          /\ client[d].update.frame # None

\* C27: a pass of the update loop whose capture fails while a client has a
\* pending request goes on to send that client an update.
C27_BlackFrameOnCaptureFailure ==
    [][(/\ update_loop_begin(FALSE)
        /\ \E c \in Range(clients) : client[c].update_requested)
           => upd'.pc = "iter"]_vars


\* C28: when every authenticate call made so far has returned, all of them
\* failed on a wrong password and there were k <= 3 of them, the failure
\* counter of the account is k and the file equals the table in memory.
FailedCalls == callers[1].failed + callers[2].failed

C28_Serialized ==
    (/\ \A t \in CallerIds : /\ callers[t].pc = "idle"
                             /\ callers[t].refused = 0
                             /\ callers[t].succeeded = 0
     /\ FailedCalls >= 1
     /\ FailedCalls <= max_login_attempts)
    => /\ users["admin"].login_attempts = FailedCalls
       /\ file = users

\* C29: after the constructor has loaded a corrupt file the store has no
\* users, so that no credential is accepted.
C29_ReinitializesEmpty ==
    (ret.op = "load_users" /\ ret.pw = "corrupt") => DOMAIN users = {}

\* C30: at most one capture thread is alive at any time.
C30_SingleCaptureThread ==
    Cardinality({t \in CaptureIds : Alive(t)}) <= 1

\* C31: receive_data(n) returns exactly the first n bytes that were pending
\* on the stream, in order, whatever the chunks; while it runs, what it holds
\* followed by what is still pending is the stream it started with; and it
\* signals end-of-stream only when the peer has closed with fewer than n
\* bytes available.
C31_ReadExact ==
    /\ rx.pc = "loop" => rx.before = rx.data \o rx.stream
    /\ rx.pc = "returned" =>
          /\ Len(rx.result) = rx.length
          /\ rx.result = SubSeq(rx.before, 1, rx.length)
          /\ rx.before = rx.result \o rx.stream
    /\ rx.pc = "eof" =>
          /\ rx.result = EndOfStream(rx.kind)
          /\ ~rx.open
          /\ Len(rx.before) < rx.length

\* A result assembled from more than one chunk.
C31_Witness ==
    /\ rx.pc = "returned"
    /\ rx.chunks >= 2
    /\ rx.length >= 2

\* End-of-stream signalled after part of the data had arrived.
C31_WitnessEof ==
    /\ rx.pc = "eof"
    /\ rx.chunks >= 1

\* C32: a PixelFormat whose fields fit their wire widths packs into exactly
\* 16 bytes, and unpacking those bytes gives back every field.
C32_PackUnpack ==
    /\ pf.pc \in {"packed", "unpacked"} =>
          /\ Fits(pf.value)
          /\ Len(pf.packed) = 16
          /\ \A i \in 1..16 : pf.packed[i] \in 0..255
    /\ pf.pc = "unpacked" => pf.unpacked = pf.value

\* A format with a channel maximum above 255 has made the round trip.
C32_Witness ==
    /\ pf.pc = "unpacked"
    /\ pf.value.red_max = 65535
    /\ pf.value.green_max = 256
    /\ pf.value.big_endian

\* C33: detect_changes returns exactly the blocks of the grid (edge blocks
\* clipped to the image) that hold a pixel with a differing byte: every
\* rectangle lies inside the image on the grid, every differing pixel lies
\* in a returned rectangle, every returned rectangle holds a differing
\* pixel, and identical images give the empty list.
BytesPerPixel == Len(img.img1) \div (img.width * img.height)

Differs(px, py) ==
    \E b \in 1..BytesPerPixel :
        img.img1[(py * img.width + px) * BytesPerPixel + b]
            # img.img2[(py * img.width + px) * BytesPerPixel + b]

Inside(px, py, r) ==
    /\ r.x <= px /\ px < r.x + r.w
    /\ r.y <= py /\ py < r.y + r.h

Returned == {img.changes[i] : i \in 1..Len(img.changes)}

C33_ChangedBlocks ==
    img.pc = "done" =>
        /\ \A r \in Returned :
              /\ r.x % BlockSize = 0 /\ r.y % BlockSize = 0
              /\ r.w = Min(BlockSize, img.width - r.x) /\ r.w >= 1
              /\ r.h = Min(BlockSize, img.height - r.y) /\ r.h >= 1
              /\ r.x >= 0 /\ r.y >= 0
              /\ \E px \in 0..(img.width - 1), py \in 0..(img.height - 1) :
                    Inside(px, py, r) /\ Differs(px, py)
        /\ \A px \in 0..(img.width - 1), py \in 0..(img.height - 1) :
              Differs(px, py) => \E r \in Returned : Inside(px, py, r)
        /\ Cardinality(Returned) = Len(img.changes)
        /\ img.img1 = img.img2 => img.changes = <<>>

\* Two images that differ only in a clipped block of the right edge.
C33_Witness ==
    /\ img.pc = "done"
    /\ img.height > 1
    /\ Len(img.changes) = 1
    /\ img.changes[1].x > 0
    /\ img.changes[1].w < BlockSize

C35_FailedNeverInitialized ==
    (conn.auth_callback /\ conn.choice = SECURITY_VNC_AUTH) =>
        /\ SecurityFailed \in Range(conn.sent) =>
               /\ conn.pc \notin {"wait_client_init", "messages"}
               /\ ServerInit \notin Range(conn.sent)
        /\ ServerInit \in Range(conn.sent) => conn.authenticated

\* C36: while the update thread is writing the update of a client, a
\* request of that client recorded since the write began is not cleared:
\* no step leaves update_requested false for it.
C36_RequestDuringService ==
    [][\A c \in Sockets :
          (/\ client[c].pc = "loop"
           /\ client[c].update_requested
           /\ upd.pc = "sending"
           /\ Head(upd.todo) = c
           /\ <<client[c].incremental_update, client[c].request>>
                  # upd.serving
           /\ client'[c].socket = "open")
              => client'[c].update_requested]_vars

\* C37: every client in the clients table is past the version handshake and
\* the authentication, has authenticated set and was sent ServerInit last
\* in its handshake; the update thread writes a FramebufferUpdate only to
\* such a client.
Handshaken(c) ==
    /\ client[c].authenticated
    /\ client[c].pc \notin Handshaking \cup {"free"}
    /\ Len(client[c].out) >= 3
    /\ client[c].out[1] = Msg("version", 8)
    /\ Last(client[c].out) = ServerInit

C37_TableHandshaken ==
    /\ \A c \in Range(clients) : Handshaken(c)
    /\ upd.pc = "sending" => Handshaken(Head(upd.todo))
    /\ \A c \in Sockets : client[c].update # NoUpdate => Handshaken(c)

\* The update thread is writing to a client that answered the challenge of
\* a server with a password.
C37_Witness ==
    /\ upd.pc = "sending"
    /\ server.password # ""
    /\ Head(upd.todo) \in Range(clients)
    /\ SecurityOK \in Range(client[Head(upd.todo)].out)
    /\ client[Head(upd.todo)].socket = "open"

\* C38: change_password is refused for a user who is locked out, and a
\* change_password call with a wrong old password on a user who is not
\* locked out raises the failure counter by one.
C38_ChangePasswordLockout ==
    [][\A u \in Usernames, p \in Passwords, q \in Passwords :
          (change_password(u, p, q) /\ u \in DOMAIN users) =>
              /\ Locked(u) => ~ret'.ok
              /\ (~Locked(u) /\ CurrentPassword(u) # p) =>
                    /\ u \in DOMAIN users'
                    /\ users'[u].login_attempts
                           = AfterFailure(AfterLockoutCheck(u)).login_attempts
      ]_vars

\* C39: while is_running is true some acceptor thread is alive and
\* self.server_socket is a listening socket.
C39_RunningHasAcceptor ==
    simple.is_running =>
        \E t \in SocketIds :
            /\ simple.acceptor[t].pc \in {"test", "accepting", "accepted"}
            /\ simple.server_socket # None
            /\ simple.listen[simple.server_socket] = "listening"

\* C40: once stop_server has returned the clients list is empty and no
\* accepted client socket is open.
C40_StoppedIsEmpty ==
    simple.stopped =>
        /\ simple.clients = <<>>
        /\ \A k \in ClientIds : simple.csock[k] # "open"

====
